---------------------------- MODULE Spec2Model ----------------------------
(***************************************************************************)
(* A model of the RIPv2 daemon of ripserv.py: the route table, the ingress *)
(* filter, RESPONSE and REQUEST processing, the timeout scan, the garbage  *)
(* collection sweep, triggered-update suppression and the update emitter.  *)
(*                                                                         *)
(* IPv4 addresses are narrowed to AddrBits bits.  Time is in whole         *)
(* seconds.  Every reactor callback is one action; the calls the daemon    *)
(* makes on the host adapter and the datagrams it writes during the last   *)
(* callback are kept in syscalls and sent.                                 *)
(***************************************************************************)
EXTENDS Integers, Sequences, FiniteSets, Bags, TLC

\* ------------------------------------------------------------------ bounds
\* The clock stops advancing at MaxTime.
MaxTime == 8
\* Width of an address, in bits.
AddrBits == 4
\* The longest --route list the daemon is started with.
MaxRoutes == 28

\* ------------------------------------------------------- program constants
MAX_ROUTES_PER_UPDATE == 25
JITTER_VALUE == 2
MIN_METRIC == 0
MAX_METRIC == 16
TYPE_REQUEST == 1
TYPE_RESPONSE == 2
HeaderSize == 4
RteSize == 20
\* The port argument of RIP.__init__ (the default).
RipPort == 520
\* The base_timer argument the daemon is run with.
base_timer == 1
update_timer == base_timer
garbage_timer == base_timer * 4
timeout_timer == base_timer * 6

\* The address 0.0.0.0 and the multicast group 224.0.0.9.
ZeroAddr == 0
McastGroup == 2 ^ AddrBits
AfiInet == 2
AfiAuth == 65535

\* ------------------------------------------------------------- addresses
\* The netmask that leaves h host bits.
Netmask(h) == 2 ^ AddrBits - 2 ^ h

\* ipaddr.IPv4Network(address/mask).network: the address ANDed with a
\* contiguous netmask.
NetworkOf(address, mask) == address - (address % (2 ^ AddrBits - mask))

\* addr in IPv4Network(ip/mask)
InSubnet(addr, ip, mask) == NetworkOf(addr, mask) = NetworkOf(ip, mask)

\* self._sys.logical_ifaces, in order: the host's interfaces.
logical_ifaces ==
    << [name |-> "A", ip |-> 5,  mask |-> Netmask(2)],
       [name |-> "B", ip |-> 9,  mask |-> Netmask(2)],
       [name |-> "C", ip |-> 13, mask |-> Netmask(2)] >>

\* The interface IPs the daemon is started with (-i).
requested_ifaces == {5, 13}

\* activate_ifaces: an interface is activated when its IP was requested.
activated(iface) == iface.ip \in requested_ifaces

get_active_ifaces == SelectSeq(logical_ifaces, activated)

InIface(addr, iface) == InSubnet(addr, iface.ip, iface.mask)


\* ------------------------------------------------------------ route entries
\* Python's None: an absent timeout, an absent next call time.
None == 0 - 1

Max(S) == CHOOSE x \in S : \A y \in S : y <= x

\* init_timeout without the test of self.imported.
init_timeout_ignores_imported(rt, now) == [rt EXCEPT !.timeout = now]

\* RIPRouteEntry.init_timeout
init_timeout(rt, now) ==
    IF rt.imported THEN [rt EXCEPT !.timeout = None]
    ELSE [rt EXCEPT !.timeout = now]

\* RIPRouteEntry.__init__ with address, mask, nexthop, metric, tag given.
RteFromHost(address, mask, nexthop, metric, tag, imported, now) ==
    init_timeout(
        [afi |-> AfiInet, tag |-> tag,
         network |-> NetworkOf(address, mask), mask |-> mask,
         nexthop |-> nexthop, metric |-> metric,
         timeout |-> None, changed |-> FALSE, garbage |-> FALSE,
         imported |-> imported, marked_for_deletion |-> FALSE], now)

\* RIPRouteEntry.__init__ with rawdata and src_ip given: the field values
\* before the metric is validated.
RteFromNet(raw, src_ip, now) ==
    [afi |-> raw.afi, tag |-> raw.tag,
     network |-> NetworkOf(raw.address, raw.mask), mask |-> raw.mask,
     nexthop |-> IF raw.nexthop = ZeroAddr THEN src_ip ELSE raw.nexthop,
     metric |-> raw.metric,
     timeout |-> now, changed |-> FALSE, garbage |-> FALSE,
     imported |-> FALSE, marked_for_deletion |-> FALSE]

\* The validation at the end of RIPRouteEntry._init_from_net.
RteValid(raw) == MIN_METRIC <= raw.metric /\ raw.metric <= MAX_METRIC

\* RIPRouteEntry.serialize: the six wire fields of an entry.
serialize(rt) ==
    [afi |-> rt.afi, tag |-> rt.tag, address |-> rt.network,
     mask |-> rt.mask, nexthop |-> rt.nexthop, metric |-> rt.metric]

\* RIPRouteEntry.__eq__
RteEq(a, b) ==
    /\ a.afi = b.afi
    /\ a.network = b.network /\ a.mask = b.mask
    /\ a.nexthop = b.nexthop
    /\ a.metric = b.metric
    /\ a.tag = b.tag

\* RIPPacket._init_from_net without the validation of the entries' metrics.
Decode_unvalidated(d, now) ==
    IF d.datalen < HeaderSize THEN [ok |-> FALSE]
    ELSE IF (d.datalen - HeaderSize) % RteSize # 0 THEN [ok |-> FALSE]
    ELSE IF d.zero # 0 THEN [ok |-> FALSE]
    ELSE [ok |-> TRUE, cmd |-> d.cmd,
          rtes |-> [i \in 1..Len(d.rtes) |-> RteFromNet(d.rtes[i], d.src, now)]]

\* RIPPacket._init_from_net with RIPHeader._init_from_net: the decoded
\* packet, or ok = FALSE where the code raises.
Decode(d, now) ==
    IF d.datalen < HeaderSize THEN [ok |-> FALSE]
    ELSE IF (d.datalen - HeaderSize) % RteSize # 0 THEN [ok |-> FALSE]
    ELSE IF d.zero # 0 THEN [ok |-> FALSE]
    ELSE IF \E i \in 1..Len(d.rtes) : ~RteValid(d.rtes[i]) THEN [ok |-> FALSE]
    ELSE [ok |-> TRUE, cmd |-> d.cmd,
          rtes |-> [i \in 1..Len(d.rtes) |-> RteFromNet(d.rtes[i], d.src, now)]]

\* -------------------------------------------------------------- route table
\* get_route with its `return None` inside the loop: only the first route is
\* looked at.
get_route_first_only(routes, net, mask) ==
    IF Len(routes) > 0 /\ routes[1].network = net /\ routes[1].mask = mask
    THEN 1 ELSE 0

\* RIP.get_route: the index of the first route with this network and mask,
\* 0 when there is none.
get_route(routes, net, mask) ==
    LET hits == {i \in 1..Len(routes) :
                    routes[i].network = net /\ routes[i].mask = mask}
    IN IF hits = {} THEN 0 ELSE CHOOSE i \in hits : \A j \in hits : i <= j

\* list.remove: drop the first element equal to rt.
ListRemove(routes, rt) ==
    LET hits == {i \in 1..Len(routes) : RteEq(routes[i], rt)}
        k == CHOOSE i \in hits : \A j \in hits : i <= j
    IN IF hits = {} THEN routes
       ELSE [i \in 1..(Len(routes) - 1) |->
                IF i < k THEN routes[i] ELSE routes[i + 1]]

\* reactor.callLater(delay, fn)
callLater(s, delay, fn, now) ==
    [s EXCEPT !.calls = @ (+) SetToBag({[fn |-> fn, at |-> now + delay]})]

\* A call on the host adapter (self._sys).
SysCall(op, rt) ==
    [op |-> op, network |-> rt.network, mask |-> rt.mask,
     metric |-> rt.metric, nexthop |-> rt.nexthop]

\* _init_garbage_collection_timer without the test of _gc_started.
init_garbage_collection_timer_unguarded(s, now) ==
    callLater([s EXCEPT !.gc_started = TRUE], garbage_timer,
              "collect_garbage_routes", now)

\* RIP._init_garbage_collection_timer
init_garbage_collection_timer(s, now) ==
    IF s.gc_started THEN s
    ELSE callLater([s EXCEPT !.gc_started = TRUE], garbage_timer,
                   "collect_garbage_routes", now)

\* _start_garbage_collection without the call of
\* _init_garbage_collection_timer.
start_garbage_collection_no_timer(s, i, now) ==
    IF s.routes[i].garbage THEN s
    ELSE LET rt == [init_timeout([s.routes[i] EXCEPT !.changed = TRUE,
                                                     !.garbage = TRUE], now)
                        EXCEPT !.metric = MAX_METRIC]
         IN [s EXCEPT !.routes[i] = rt,
                      !.syscalls = Append(@, SysCall("modify_route", rt)),
                      !.route_change = TRUE]

\* RIP._start_garbage_collection on the route at index i.
start_garbage_collection(s, i, now) ==
    IF s.routes[i].garbage THEN s
    ELSE LET rt == [init_timeout([s.routes[i] EXCEPT !.changed = TRUE,
                                                     !.garbage = TRUE], now)
                        EXCEPT !.metric = MAX_METRIC]
         IN init_garbage_collection_timer(
                [s EXCEPT !.routes[i] = rt,
                          !.syscalls = Append(@, SysCall("modify_route", rt)),
                          !.route_change = TRUE], now)

\* update_route without `oldrt.garbage = False`.
update_route_keeps_garbage(s, i, newrt, now) ==
    LET rt == [init_timeout(s.routes[i], now)
                  EXCEPT !.changed = TRUE,
                         !.metric = newrt.metric, !.nexthop = newrt.nexthop]
    IN [s EXCEPT !.routes[i] = rt,
                 !.syscalls = Append(@, SysCall("modify_route", rt)),
                 !.route_change = TRUE]

\* update_route without `oldrt.metric = newrt.metric`.
update_route_keeps_metric(s, i, newrt, now) ==
    LET rt == [init_timeout(s.routes[i], now)
                  EXCEPT !.garbage = FALSE, !.changed = TRUE,
                         !.nexthop = newrt.nexthop]
    IN [s EXCEPT !.routes[i] = rt,
                 !.syscalls = Append(@, SysCall("modify_route", rt)),
                 !.route_change = TRUE]

\* RIP.update_route on the route at index i.
update_route(s, i, newrt, now) ==
    LET rt == [init_timeout(s.routes[i], now)
                  EXCEPT !.garbage = FALSE, !.changed = TRUE,
                         !.metric = newrt.metric, !.nexthop = newrt.nexthop]
    IN [s EXCEPT !.routes[i] = rt,
                 !.syscalls = Append(@, SysCall("modify_route", rt)),
                 !.route_change = TRUE]

\* try_add_route without the test `rte.metric == RIPRouteEntry.MAX_METRIC`
\* for a network that has no route.
try_add_route_adds_unreachable(s, rte0, host, install, now) ==
    LET bestidx == get_route(s.routes, rte0.network, rte0.mask)
        rte == [rte0 EXCEPT !.nexthop = host]
    IN IF bestidx = 0
       THEN IF FALSE THEN s
            ELSE LET new == [rte EXCEPT !.changed = TRUE]
                     added == [s EXCEPT !.routes = Append(@, new)]
                 IN IF ~install THEN added
                    ELSE [added EXCEPT
                            !.route_change = TRUE,
                            !.syscalls = Append(@, SysCall("install_route", new))]
       ELSE LET bestroute == s.routes[bestidx]
            IN IF rte.nexthop = bestroute.nexthop
               THEN IF bestroute.metric # rte.metric
                    THEN IF bestroute.metric # MAX_METRIC
                            /\ rte.metric >= MAX_METRIC
                         THEN start_garbage_collection(s, bestidx, now)
                         ELSE update_route(s, bestidx, rte, now)
                    ELSE IF ~bestroute.garbage
                         THEN [s EXCEPT !.routes[bestidx] = init_timeout(@, now)]
                         ELSE s
               ELSE IF rte.metric < bestroute.metric
                    THEN update_route(s, bestidx, rte, now)
                    ELSE s

\* try_add_route with `<=` for `<` in the test of a route from another
\* nexthop.
try_add_route_takes_equal_metric(s, rte0, host, install, now) ==
    LET bestidx == get_route(s.routes, rte0.network, rte0.mask)
        rte == [rte0 EXCEPT !.nexthop = host]
    IN IF bestidx = 0
       THEN IF rte.metric = MAX_METRIC THEN s
            ELSE LET new == [rte EXCEPT !.changed = TRUE]
                     added == [s EXCEPT !.routes = Append(@, new)]
                 IN IF ~install THEN added
                    ELSE [added EXCEPT
                            !.route_change = TRUE,
                            !.syscalls = Append(@, SysCall("install_route", new))]
       ELSE LET bestroute == s.routes[bestidx]
            IN IF rte.nexthop = bestroute.nexthop
               THEN IF bestroute.metric # rte.metric
                    THEN IF bestroute.metric # MAX_METRIC
                            /\ rte.metric >= MAX_METRIC
                         THEN start_garbage_collection(s, bestidx, now)
                         ELSE update_route(s, bestidx, rte, now)
                    ELSE IF ~bestroute.garbage
                         THEN [s EXCEPT !.routes[bestidx] = init_timeout(@, now)]
                         ELSE s
               ELSE IF rte.metric <= bestroute.metric
                    THEN update_route(s, bestidx, rte, now)
                    ELSE s

\* try_add_route without the test `not bestroute.garbage` on the
\* equal-metric branch.
try_add_route_refreshes_garbage(s, rte0, host, install, now) ==
    LET bestidx == get_route(s.routes, rte0.network, rte0.mask)
        rte == [rte0 EXCEPT !.nexthop = host]
    IN IF bestidx = 0
       THEN IF rte.metric = MAX_METRIC THEN s
            ELSE LET new == [rte EXCEPT !.changed = TRUE]
                     added == [s EXCEPT !.routes = Append(@, new)]
                 IN IF ~install THEN added
                    ELSE [added EXCEPT
                            !.route_change = TRUE,
                            !.syscalls = Append(@, SysCall("install_route", new))]
       ELSE LET bestroute == s.routes[bestidx]
            IN IF rte.nexthop = bestroute.nexthop
               THEN IF bestroute.metric # rte.metric
                    THEN IF bestroute.metric # MAX_METRIC
                            /\ rte.metric >= MAX_METRIC
                         THEN start_garbage_collection(s, bestidx, now)
                         ELSE update_route(s, bestidx, rte, now)
                    ELSE IF TRUE
                         THEN [s EXCEPT !.routes[bestidx] = init_timeout(@, now)]
                         ELSE s
               ELSE IF rte.metric < bestroute.metric
                    THEN update_route(s, bestidx, rte, now)
                    ELSE s

\* try_add_route without the branch to _start_garbage_collection: an
\* unreachable advertisement from the nexthop is taken by update_route.
try_add_route_never_starts_gc(s, rte0, host, install, now) ==
    LET bestidx == get_route(s.routes, rte0.network, rte0.mask)
        rte == [rte0 EXCEPT !.nexthop = host]
    IN IF bestidx = 0
       THEN IF rte.metric = MAX_METRIC THEN s
            ELSE LET new == [rte EXCEPT !.changed = TRUE]
                     added == [s EXCEPT !.routes = Append(@, new)]
                 IN IF ~install THEN added
                    ELSE [added EXCEPT
                            !.route_change = TRUE,
                            !.syscalls = Append(@, SysCall("install_route", new))]
       ELSE LET bestroute == s.routes[bestidx]
            IN IF rte.nexthop = bestroute.nexthop
               THEN IF bestroute.metric # rte.metric
                    THEN update_route(s, bestidx, rte, now)
                    ELSE IF ~bestroute.garbage
                         THEN [s EXCEPT !.routes[bestidx] = init_timeout(@, now)]
                         ELSE s
               ELSE IF rte.metric < bestroute.metric
                    THEN update_route(s, bestidx, rte, now)
                    ELSE s

\* RIP.try_add_route
try_add_route(s, rte0, host, install, now) ==
    LET bestidx == get_route(s.routes, rte0.network, rte0.mask)
        rte == [rte0 EXCEPT !.nexthop = host]
    IN IF bestidx = 0
       THEN IF rte.metric = MAX_METRIC THEN s
            ELSE LET new == [rte EXCEPT !.changed = TRUE]
                     added == [s EXCEPT !.routes = Append(@, new)]
                 IN IF ~install THEN added
                    ELSE [added EXCEPT
                            !.route_change = TRUE,
                            !.syscalls = Append(@, SysCall("install_route", new))]
       ELSE LET bestroute == s.routes[bestidx]
            IN IF rte.nexthop = bestroute.nexthop
               THEN IF bestroute.metric # rte.metric
                    THEN IF bestroute.metric # MAX_METRIC
                            /\ rte.metric >= MAX_METRIC
                         THEN start_garbage_collection(s, bestidx, now)
                         ELSE update_route(s, bestidx, rte, now)
                    ELSE IF ~bestroute.garbage
                         THEN [s EXCEPT !.routes[bestidx] = init_timeout(@, now)]
                         ELSE s
               ELSE IF rte.metric < bestroute.metric
                    THEN update_route(s, bestidx, rte, now)
                    ELSE s

\* ------------------------------------------------------------ update emitter
\* RIP.send_update / transport.write: one datagram handed to the transport.
Datagram(src_iface_ip, dst_ip, dst_port, cmd, rtes) ==
    [iface |-> src_iface_ip, dst |-> dst_ip, port |-> dst_port,
     cmd |-> cmd, rtes |-> rtes]

\* The entry carries the stored nexthop.
advertised_nexthop_stored(rt, iface) == rt.nexthop

\* The nexthop RIP.generate_update puts in the entry for rt sent on iface.
advertised_nexthop(rt, iface) ==
    IF InIface(rt.nexthop, iface) /\ rt.nexthop # iface.ip
    THEN rt.nexthop ELSE ZeroAddr

\* The final flush without the test of len(msg).
final_flush_unconditional(iface, dst_ip, dst_port, msg, out) ==
    Append(out, Datagram(iface.ip, dst_ip, dst_port, TYPE_RESPONSE, msg))

\* The final flush of RIP.generate_update: what is left in msg is sent when
\* it holds more than the header.
final_flush(iface, dst_ip, dst_port, msg, out) ==
    IF Len(msg) > 0
    THEN Append(out, Datagram(iface.ip, dst_ip, dst_port, TYPE_RESPONSE, msg))
    ELSE out

\* The route loop of RIP.generate_update for one interface, from route i on:
\* msg holds the entries gathered since the last flush, out the datagrams
\* already sent.  Returns the datagrams sent for the interface.
RECURSIVE UpdateLoop(_, _, _, _, _, _, _, _)
UpdateLoop(routes, i, iface, triggered, dst_ip, dst_port, msg, out) ==
    IF i > Len(routes)
    THEN final_flush(iface, dst_ip, dst_port, msg, out)
    ELSE LET rt == routes[i]
         IN IF InIface(rt.nexthop, iface)
            THEN UpdateLoop(routes, i + 1, iface, triggered, dst_ip, dst_port, msg, out)
            ELSE IF triggered /\ ~rt.changed
            THEN UpdateLoop(routes, i + 1, iface, triggered, dst_ip, dst_port, msg, out)
            ELSE LET nexthop == advertised_nexthop(rt, iface)
                     msg2 == Append(msg, serialize([rt EXCEPT !.nexthop = nexthop]))
                 IN IF Len(msg2) = MAX_ROUTES_PER_UPDATE
                    THEN UpdateLoop(routes, i + 1, iface, triggered, dst_ip, dst_port,
                             << >>,
                             Append(out, Datagram(iface.ip, dst_ip, dst_port,
                                                  TYPE_RESPONSE, msg2)))
                    ELSE UpdateLoop(routes, i + 1, iface, triggered, dst_ip, dst_port,
                             msg2, out)

\* The interface loop of RIP.generate_update.
RECURSIVE IfaceLoop(_, _, _, _, _, _)
IfaceLoop(routes, ifaces, k, triggered, dst_ip, dst_port) ==
    IF k > Len(ifaces) THEN << >>
    ELSE UpdateLoop(routes, 1, ifaces[k], triggered, dst_ip, dst_port, << >>, << >>)
         \o IfaceLoop(routes, ifaces, k + 1, triggered, dst_ip, dst_port)

\* RIP.generate_update (split_horizon is never passed, so it is True).
generate_update(s, triggered, ifaces, dst_ip, dst_port, now) ==
    LET ifaces_to_use == IF Len(ifaces) = 0 THEN get_active_ifaces ELSE ifaces
        port == IF dst_port = 0 THEN RipPort ELSE dst_port
        out == IfaceLoop(s.routes, ifaces_to_use, 1, triggered, dst_ip, port)
    IN [s EXCEPT
          !.last_update_time = now,
          !.sent = @ \o out,
          !.routes = IF triggered
                     THEN [i \in 1..Len(s.routes) |->
                              [s.routes[i] EXCEPT !.changed = FALSE]]
                     ELSE @]

\* _send_triggered_update without `self._route_change = False`.
send_triggered_update_keeps_flag(s, now) ==
    [generate_update(s, TRUE, << >>, McastGroup, RipPort, now)
        EXCEPT !.suppress_triggered_updates = FALSE]

\* RIP._send_triggered_update
send_triggered_update(s, now) ==
    [generate_update(s, TRUE, << >>, McastGroup, RipPort, now)
        EXCEPT !.route_change = FALSE, !.suppress_triggered_updates = FALSE]

\* handle_route_change without the test of _suppress_triggered_updates.
handle_route_change_unsuppressed(s, delay, now) ==
    LET s1 == [s EXCEPT !.suppress_triggered_updates = TRUE]
    IN IF s1.last_update_time + delay < now
       THEN send_triggered_update(s1, now)
       ELSE callLater(s1, delay, "send_triggered_update", now)

\* RIP.handle_route_change; delay is the value random.randrange(1, 5) gives.
handle_route_change(s, delay, now) ==
    IF s.suppress_triggered_updates THEN s
    ELSE LET s1 == [s EXCEPT !.suppress_triggered_updates = TRUE]
         IN IF s1.last_update_time + delay < now
            THEN send_triggered_update(s1, now)
            ELSE callLater(s1, delay, "send_triggered_update", now)

\* ---------------------------------------------------------- timing engine
\* The test `rt.timeout < before_time` of RIP._act_on_routes_before_time.
\* The model's clock counts whole seconds while datetime.now() counts
\* microseconds: a timestamp taken in the second of before_time lies before
\* it (skew = -1), on it (skew = 0) or after it (skew = 1), depending on
\* when within their seconds the callback and the event that set the
\* timestamp run.
Expired(rt, timer, now, skew) ==
    /\ rt.timeout # None
    /\ \/ rt.timeout < now - timer
       \/ skew = 0 - 1 /\ rt.timeout = now - timer

\* The value RIP._act_on_routes_before_time returns; qual is the set of
\* indices of the routes that meet cond.  lowest_timer is the greatest
\* timestamp among the routes not acted on.
next_call_time(routes, qual, timer, now, skew) ==
    LET before_time == now - timer
        kept == {i \in qual : routes[i].timeout # None
                              /\ ~Expired(routes[i], timer, now, skew)}
        lowest_timer == Max({before_time} \cup {routes[i].timeout : i \in kept})
    IN IF kept = {} \/ (lowest_timer = before_time /\ skew = 0) THEN None
       ELSE (lowest_timer + timer - now) + 1

\* The outcomes of comparing timestamps within one second.
Skews == {0 - 1, 0, 1}

\* The loop of _act_on_routes_before_time with action =
\* _start_garbage_collection and cond = not garbage, from route i on.
RECURSIVE TimeoutLoop(_, _, _, _)
TimeoutLoop(s, i, now, skew) ==
    IF i > Len(s.routes) THEN s
    ELSE IF ~s.routes[i].garbage /\ Expired(s.routes[i], timeout_timer, now, skew)
         THEN TimeoutLoop(start_garbage_collection(s, i, now), i + 1, now, skew)
         ELSE TimeoutLoop(s, i + 1, now, skew)

\* RIP._check_route_timeouts
check_route_timeouts(s, now, skew) ==
    LET qual == {i \in 1..Len(s.routes) : ~s.routes[i].garbage}
        next == next_call_time(s.routes, qual, timeout_timer, now, skew)
        s1 == TimeoutLoop(s, 1, now, skew)
        s2 == IF s1.route_change THEN send_triggered_update(s1, now) ELSE s1
    IN callLater(s2, IF next = None \/ next = 0 THEN timeout_timer ELSE next,
                 "check_route_timeouts", now)

\* RIP._uninstall_route
uninstall_route(s, rt) ==
    [s EXCEPT !.syscalls = Append(@, SysCall("uninstall_route", rt)),
              !.routes = ListRemove(@, rt)]

\* The deletion loop of _collect_garbage_routes over the copy of the table.
RECURSIVE DeleteLoop(_, _, _)
DeleteLoop(s, copy, i) ==
    IF i > Len(copy) THEN s
    ELSE IF copy[i].marked_for_deletion
         THEN DeleteLoop(uninstall_route(s, copy[i]), copy, i + 1)
         ELSE DeleteLoop(s, copy, i + 1)

\* RIP._collect_garbage_routes
collect_garbage_routes(s, now, skew) ==
    LET qual == {i \in 1..Len(s.routes) : s.routes[i].garbage}
        next == next_call_time(s.routes, qual, garbage_timer, now, skew)
        marked == [i \in 1..Len(s.routes) |->
                     IF i \in qual /\ Expired(s.routes[i], garbage_timer, now, skew)
                     THEN [s.routes[i] EXCEPT !.marked_for_deletion = TRUE]
                     ELSE s.routes[i]]
        s1 == DeleteLoop([s EXCEPT !.routes = marked], marked, 1)
    IN IF next = None \/ next = 0
       THEN [s1 EXCEPT !.gc_started = FALSE]
       ELSE callLater(s1, next, "collect_garbage_routes", now)

\* -------------------------------------------------------- protocol engine
\* The entry loop of RIP.process_response, from entry i on.
RECURSIVE ResponseLoop(_, _, _, _, _)
ResponseLoop(s, rtes, i, host, now) ==
    IF i > Len(rtes) THEN s
    ELSE LET m == rtes[i].metric + 1
             rte == [rtes[i] EXCEPT
                       !.metric = IF m < MAX_METRIC THEN m ELSE MAX_METRIC]
         IN ResponseLoop(try_add_route(s, rte, host, TRUE, now),
                         rtes, i + 1, host, now)

\* RIP.process_response
process_response(s, rtes, host, delay, now) ==
    LET s1 == ResponseLoop(s, rtes, 1, host, now)
    IN IF s1.route_change THEN handle_route_change(s1, delay, now) ELSE s1

\* _send_whole_response without ifaces=[local_iface].
send_whole_response_all_ifaces(s, host, port, local_iface, now) ==
    generate_update(s, FALSE, << >>, host, port, now)

\* RIP._send_whole_response
send_whole_response(s, host, port, local_iface, now) ==
    generate_update(s, FALSE, << local_iface >>, host, port, now)

\* RIP._send_partial_response
send_partial_response(s, host, port, rtes) ==
    LET answer(rt) ==
            LET k == get_route(s.routes, rt.network, rt.mask)
            IN serialize([rt EXCEPT !.metric = IF k = 0 THEN MAX_METRIC
                                                ELSE s.routes[k].metric])
    IN [s EXCEPT !.sent = Append(@,
            Datagram(None, host, port, TYPE_RESPONSE,
                     [i \in 1..Len(rtes) |-> answer(rtes[i])]))]

\* RIP.process_request
process_request(s, rtes, host, port, local_iface, now) ==
    IF Len(rtes) = 0 THEN s
    ELSE IF Len(rtes) = 1 /\ rtes[1].afi = 0 /\ rtes[1].metric = MAX_METRIC
    THEN send_whole_response(s, host, port, local_iface, now)
    ELSE send_partial_response(s, host, port, rtes)

\* The interface loop at the head of RIP.datagramReceived: the index of the
\* interface the loop breaks at, 0 when it runs to its end.
LocalIface(host) ==
    LET hits == {i \in 1..Len(logical_ifaces) :
                    InIface(host, logical_ifaces[i])
                    \/ logical_ifaces[i].ip = host}
    IN IF hits = {} THEN 0 ELSE CHOOSE i \in hits : \A j \in hits : i <= j

\* datagramReceived without the link-local test.
datagramReceived_no_link_local_test(s, d, delay, now) ==
    LET k == LocalIface(d.src)
        host_local == k # 0 /\ logical_ifaces[k].ip = d.src
        msg == Decode(d, now)
    IN IF host_local THEN s
       ELSE IF ~msg.ok THEN s
       ELSE IF msg.cmd = TYPE_REQUEST
       THEN process_request(s, msg.rtes, d.src, d.port,
                            logical_ifaces[IF k = 0 THEN 1 ELSE k], now)
       ELSE IF msg.cmd = TYPE_RESPONSE
       THEN IF d.port # RipPort THEN s
            ELSE process_response(s, msg.rtes, d.src, delay, now)
       ELSE s

\* RIP.datagramReceived
datagramReceived(s, d, delay, now) ==
    LET k == LocalIface(d.src)
        link_local == k # 0 /\ InIface(d.src, logical_ifaces[k])
        host_local == k # 0 /\ logical_ifaces[k].ip = d.src
        msg == Decode(d, now)
    IN IF ~link_local THEN s
       ELSE IF host_local THEN s
       ELSE IF ~msg.ok THEN s
       ELSE IF msg.cmd = TYPE_REQUEST
       THEN process_request(s, msg.rtes, d.src, d.port, logical_ifaces[k], now)
       ELSE IF msg.cmd = TYPE_RESPONSE
       THEN IF d.port # RipPort THEN s
            ELSE process_response(s, msg.rtes, d.src, delay, now)
       ELSE s

\* ------------------------------------------------- host adapter failures
\* A failing install_route, modify_route or uninstall_route raises
\* ModifyRouteError.  No handler catches it: the handler ends at the call,
\* with the assignments it made before the call and none of those after it.

\* RIP.update_route when modify_route raises.
update_route_raises(s, i, newrt, now) ==
    LET rt == [init_timeout(s.routes[i], now)
                  EXCEPT !.garbage = FALSE, !.changed = TRUE,
                         !.metric = newrt.metric, !.nexthop = newrt.nexthop]
    IN [s EXCEPT !.routes[i] = rt,
                 !.syscalls = Append(@, SysCall("modify_route", rt))]

\* RIP._start_garbage_collection on a route that is not garbage, when
\* modify_route raises.
start_garbage_collection_raises(s, i, now) ==
    LET rt == [init_timeout([s.routes[i] EXCEPT !.changed = TRUE,
                                                !.garbage = TRUE], now)
                  EXCEPT !.metric = MAX_METRIC]
    IN [s EXCEPT !.routes[i] = rt,
                 !.syscalls = Append(@, SysCall("modify_route", rt))]

\* RIP.try_add_route reaches a call of the host adapter.
CallsAdapter(s, rte, host, now) ==
    Len(try_add_route(s, rte, host, TRUE, now).syscalls) > Len(s.syscalls)

\* RIP.try_add_route (install = True) when the call it reaches raises.
try_add_route_raises(s, rte0, host, now) ==
    LET bestidx == get_route(s.routes, rte0.network, rte0.mask)
        rte == [rte0 EXCEPT !.nexthop = host]
    IN IF bestidx = 0
       THEN LET new == [rte EXCEPT !.changed = TRUE]
            IN [s EXCEPT !.routes = Append(@, new),
                         !.route_change = TRUE,
                         !.syscalls = Append(@, SysCall("install_route", new))]
       ELSE LET bestroute == s.routes[bestidx]
            IN IF rte.nexthop = bestroute.nexthop
                  /\ bestroute.metric # MAX_METRIC /\ rte.metric >= MAX_METRIC
               THEN start_garbage_collection_raises(s, bestidx, now)
               ELSE update_route_raises(s, bestidx, rte, now)

\* The entry loop of RIP.process_response when the first call of the host
\* adapter raises: the state the loop is left in, and whether it was left.
RECURSIVE ResponseLoopRaises(_, _, _, _, _)
ResponseLoopRaises(s, rtes, i, host, now) ==
    IF i > Len(rtes) THEN [s |-> s, raised |-> FALSE]
    ELSE LET m == rtes[i].metric + 1
             rte == [rtes[i] EXCEPT
                       !.metric = IF m < MAX_METRIC THEN m ELSE MAX_METRIC]
         IN IF CallsAdapter(s, rte, host, now)
            THEN [s |-> try_add_route_raises(s, rte, host, now), raised |-> TRUE]
            ELSE ResponseLoopRaises(try_add_route(s, rte, host, TRUE, now),
                                    rtes, i + 1, host, now)

\* RIP.process_response when the first call of the host adapter raises.
process_response_raises(s, rtes, host, delay, now) ==
    LET r == ResponseLoopRaises(s, rtes, 1, host, now)
    IN IF r.raised THEN r.s
       ELSE IF r.s.route_change THEN handle_route_change(r.s, delay, now)
       ELSE r.s

\* RIP.datagramReceived when the first call of the host adapter raises.
datagramReceived_raises(s, d, delay, now) ==
    LET k == LocalIface(d.src)
        link_local == k # 0 /\ InIface(d.src, logical_ifaces[k])
        host_local == k # 0 /\ logical_ifaces[k].ip = d.src
        msg == Decode(d, now)
    IN IF ~link_local THEN s
       ELSE IF host_local THEN s
       ELSE IF ~msg.ok THEN s
       ELSE IF msg.cmd = TYPE_REQUEST
       THEN process_request(s, msg.rtes, d.src, d.port, logical_ifaces[k], now)
       ELSE IF msg.cmd = TYPE_RESPONSE
       THEN IF d.port # RipPort THEN s
            ELSE process_response_raises(s, msg.rtes, d.src, delay, now)
       ELSE s

\* RIP._check_route_timeouts when the first call of the host adapter raises:
\* the scan ends in _start_garbage_collection for the first timed out route.
check_route_timeouts_raises(s, now, skew) ==
    LET timed_out == {i \in 1..Len(s.routes) :
                        ~s.routes[i].garbage
                        /\ Expired(s.routes[i], timeout_timer, now, skew)}
    IN IF timed_out = {} THEN check_route_timeouts(s, now, skew)
       ELSE start_garbage_collection_raises(
                s, CHOOSE i \in timed_out : \A j \in timed_out : i <= j, now)

\* RIP._collect_garbage_routes when the first call of the host adapter
\* raises: the routes are marked, and the sweep ends in _uninstall_route for
\* the first marked route.
collect_garbage_routes_raises(s, now, skew) ==
    LET qual == {i \in 1..Len(s.routes) : s.routes[i].garbage}
        marked == [i \in 1..Len(s.routes) |->
                     IF i \in qual /\ Expired(s.routes[i], garbage_timer, now, skew)
                     THEN [s.routes[i] EXCEPT !.marked_for_deletion = TRUE]
                     ELSE s.routes[i]]
        due == {i \in 1..Len(marked) : marked[i].marked_for_deletion}
    IN IF due = {} THEN collect_garbage_routes(s, now, skew)
       ELSE [s EXCEPT !.routes = marked,
                      !.syscalls = Append(@, SysCall("uninstall_route",
                            marked[CHOOSE i \in due : \A j \in due : i <= j]))]

\* RIP.send_request
send_request(s) ==
    LET request == << [afi |-> 0, tag |-> 0, address |-> ZeroAddr, mask |-> 0,
                       nexthop |-> ZeroAddr, metric |-> MAX_METRIC] >>
        ifs == get_active_ifaces
    IN [s EXCEPT !.sent = @ \o
            [i \in 1..Len(ifs) |->
                Datagram(ifs[i].ip, McastGroup, RipPort, TYPE_REQUEST, request)]]

\* RIP.get_update_interval; jitter is the value random.randrange(-2, 2) gives.
get_update_interval(jitter) == update_timer + jitter

\* RIP.generate_periodic_update; reactor.callLater refuses a negative delay
\* and the update is then not rescheduled.
generate_periodic_update(s, jitter, now) ==
    LET s1 == generate_update(s, FALSE, << >>, McastGroup, RipPort, now)
    IN IF get_update_interval(jitter) < 0 THEN s1
       ELSE callLater(s1, get_update_interval(jitter),
                      "generate_periodic_update", now)

\* ------------------------------------------------------------------ inputs
\* Destinations on the wire: a network, and the same network written with a
\* host bit set.
Dests ==
    { [address |-> 0, mask |-> Netmask(2)],
      [address |-> 1, mask |-> Netmask(2)] }

Raw(afi, dest, nexthop, metric) ==
    [afi |-> afi, tag |-> 0, address |-> dest.address, mask |-> dest.mask,
     nexthop |-> nexthop, metric |-> metric]

Wire(src, port, cmd, rtes) ==
    [src |-> src, port |-> port, datalen |-> HeaderSize + RteSize * Len(rtes),
     cmd |-> cmd, zero |-> 0, rtes |-> rtes]

\* One-entry RESPONSEs from the two neighbours on interface A, and from one
\* of them with the address of the other in the nexthop field.
SingleResponses ==
    { Wire(src, RipPort, TYPE_RESPONSE, << Raw(AfiInet, dst, ZeroAddr, m) >>) :
        src \in {6, 7}, dst \in Dests, m \in {0, 1, 15} }
    \cup
    { Wire(6, RipPort, TYPE_RESPONSE,
           << Raw(AfiInet, [address |-> 0, mask |-> Netmask(2)], 7, m) >>) :
        m \in {0, 16} }

\* Two-entry RESPONSEs from one neighbour.
PairResponses ==
    { Wire(6, RipPort, TYPE_RESPONSE,
           << Raw(AfiInet, d1, ZeroAddr, m1), Raw(AfiInet, d2, ZeroAddr, m2) >>) :
        d1 \in Dests, d2 \in Dests, m1 \in {0, 15}, m2 \in {0, 15} }

\* RESPONSEs that carry an authentication entry.
AuthResponses ==
    { Wire(6, RipPort, TYPE_RESPONSE,
           << Raw(AfiAuth, [address |-> 0, mask |-> Netmask(2)], ZeroAddr, m) >>) :
        m \in {1, 15} }

WholeRequest ==
    << [afi |-> 0, tag |-> 0, address |-> ZeroAddr, mask |-> 0,
        nexthop |-> ZeroAddr, metric |-> MAX_METRIC] >>

\* Datagrams from a host on the subnet of interface B, which is not activated.
InactiveIfaceDatagrams ==
    { Wire(10, RipPort, TYPE_RESPONSE,
           << Raw(AfiInet, [address |-> 0, mask |-> Netmask(2)], ZeroAddr, m) >>) :
        m \in {1, 15} }
    \cup { Wire(10, RipPort, TYPE_REQUEST, WholeRequest) }

Requests ==
    { Wire(6, RipPort, TYPE_REQUEST, WholeRequest),
      Wire(14, 1024, TYPE_REQUEST, WholeRequest),
      Wire(6, 1024, TYPE_REQUEST,
           << Raw(AfiInet, [address |-> 1, mask |-> Netmask(2)], ZeroAddr, 3) >>),
      Wire(6, RipPort, TYPE_REQUEST, << >>) }

\* Datagrams the ingress filter drops.
GoodRte == Raw(AfiInet, [address |-> 0, mask |-> Netmask(2)], ZeroAddr, 1)

Dropped ==
    { Wire(5, RipPort, TYPE_RESPONSE, << GoodRte >>),
      Wire(1, RipPort, TYPE_RESPONSE, << GoodRte >>),
      Wire(ZeroAddr, RipPort, TYPE_RESPONSE, << GoodRte >>),
      Wire(6, 1024, TYPE_RESPONSE, << GoodRte >>),
      Wire(6, RipPort, 3, << GoodRte >>),
      [Wire(6, RipPort, TYPE_RESPONSE, << >>) EXCEPT !.datalen = 3],
      [Wire(6, RipPort, TYPE_RESPONSE, << GoodRte >>) EXCEPT !.datalen = 25],
      [Wire(6, RipPort, TYPE_RESPONSE, << GoodRte >>) EXCEPT !.zero = 1],
      Wire(6, RipPort, TYPE_RESPONSE,
           << GoodRte, [GoodRte EXCEPT !.metric = 17] >>) }

Datagrams ==
    SingleResponses \cup PairResponses \cup AuthResponses
    \cup InactiveIfaceDatagrams \cup Requests \cup Dropped

\* The startup configurations: the --route list, --import-routes, and what
\* the host adapter's get_local_routes returns.
Configs ==
    { [user_routes |-> << >>, importroutes |-> FALSE],
      [user_routes |-> << [address |-> 1, mask |-> Netmask(2)],
                          [address |-> 0, mask |-> Netmask(2)] >>,
       importroutes |-> FALSE],
      [user_routes |-> << >>, importroutes |-> TRUE] }

get_local_routes ==
    << [address |-> 4, mask |-> Netmask(2)],
       [address |-> 0, mask |-> Netmask(1)] >>

\* The least and the greatest value random.randrange(-JITTER_VALUE,
\* JITTER_VALUE) gives.
Jitters == {0 - JITTER_VALUE, JITTER_VALUE - 1}

\* The least and the greatest value random.randrange(1, 5) gives.
Delays == {1, 4}

\* The instants at which datagrams arrive: at startup, one second later (a
\* route learned then is timed out by the scan at 8) and at the end.
ArrivalTimes == {0, 1, MaxTime}

\* RESPONSEs from one neighbour for two different networks, and a poisoned
\* route.
AgingDatagrams ==
    { Wire(6, RipPort, TYPE_RESPONSE,
           << Raw(AfiInet, [address |-> a, mask |-> Netmask(2)], ZeroAddr, 1) >>) :
        a \in {0, 8} }
    \cup
    { Wire(6, RipPort, TYPE_RESPONSE,
           << Raw(AfiInet, [address |-> 8, mask |-> Netmask(2)], ZeroAddr, 15) >>) }

\* The instants at which they arrive: at startup and shortly before the
\* second timeout scan.
AgingArrivalTimes == {0, 5}

\* Every destination of the address space but the one the neighbour
\* advertises, longest prefix first.
ManyNets ==
    LET dests == { [address |-> a, mask |-> Netmask(h)] :
                      h \in 0..AddrBits, a \in 0..(2 ^ AddrBits - 1) }
        nets == { x \in dests : NetworkOf(x.address, x.mask) = x.address
                                /\ x # [address |-> 0, mask |-> Netmask(2)] }
        key(x) == (2 ^ AddrBits - x.mask) * 2 ^ AddrBits + x.address
        nth[i \in 1..Cardinality(nets)] ==
            CHOOSE x \in nets : Cardinality({y \in nets : key(y) < key(x)}) = i - 1
    IN nth

\* --route lists of every length up to MaxRoutes.
BulkConfigs ==
    { [user_routes |-> SubSeq(ManyNets, 1, n), importroutes |-> FALSE] :
        n \in 0..MaxRoutes }

\* A route advertised and then poisoned by the neighbour on interface A,
\* and whole-table REQUESTs from hosts on interfaces A and C.
BulkDatagrams ==
    { Wire(6, RipPort, TYPE_RESPONSE,
           << Raw(AfiInet, [address |-> 0, mask |-> Netmask(2)], ZeroAddr, m) >>) :
        m \in {1, 15} }
    \cup
    { Wire(6, RipPort, TYPE_REQUEST, WholeRequest),
      Wire(14, 1024, TYPE_REQUEST, WholeRequest) }

BulkArrivalTimes == {0, 2}

\* ------------------------------------------------------------------- state
VARIABLES
    routes,                      \* self._routes
    route_change,                \* self._route_change
    suppress_triggered_updates,  \* self._suppress_triggered_updates
    gc_started,                  \* self._gc_started
    last_update_time,            \* self._last_update_time
    calls,                       \* the reactor's pending delayed calls (a bag)
    syscalls,                    \* host adapter calls made in the last step
    sent,                        \* datagrams written in the last step
    now                          \* the clock

vars == << routes, route_change, suppress_triggered_updates, gc_started,
           last_update_time, calls, syscalls, sent, now >>

\* The daemon's state at the start of a callback.
Cur ==
    [routes |-> routes, route_change |-> route_change,
     suppress_triggered_updates |-> suppress_triggered_updates,
     gc_started |-> gc_started, last_update_time |-> last_update_time,
     calls |-> calls, syscalls |-> << >>, sent |-> << >>]

Commit(s) ==
    /\ routes' = s.routes
    /\ route_change' = s.route_change
    /\ suppress_triggered_updates' = s.suppress_triggered_updates
    /\ gc_started' = s.gc_started
    /\ last_update_time' = s.last_update_time
    /\ calls' = s.calls
    /\ syscalls' = s.syscalls
    /\ sent' = s.sent
    /\ now' = now

\* The seeding loops of RIP.__init__.
RECURSIVE SeedLoop(_, _, _)
SeedLoop(s, nets, i) ==
    IF i > Len(nets) THEN s
    ELSE LET s1 == try_add_route(s,
                RteFromHost(nets[i].address, nets[i].mask, ZeroAddr, 1, 0, TRUE, 0),
                ZeroAddr, FALSE, 0)
         \* The test makes TLC evaluate s1 before the next iteration, so that
         \* a long list does not nest its evaluation.
         IN IF Len(s1.routes) >= 0 THEN SeedLoop(s1, nets, i + 1) ELSE s1

\* RIP.__init__ up to reactor.run(): the three reactor.callWhenRunning calls
\* are held as one pending startup call.
Startup(cfg) ==
    LET s0 == [routes |-> << >>, route_change |-> FALSE,
               suppress_triggered_updates |-> FALSE, gc_started |-> FALSE,
               last_update_time |-> 0,
               calls |-> SetToBag({[fn |-> "startup", at |-> 0]}),
               syscalls |-> << >>, sent |-> << >>]
        s1 == SeedLoop(s0, cfg.user_routes, 1)
    IN IF cfg.importroutes THEN SeedLoop(s1, get_local_routes, 1) ELSE s1

Init ==
    /\ now = 0
    /\ \E cfg \in Configs :
          LET s == Startup(cfg)
          IN /\ routes = s.routes
             /\ route_change = s.route_change
             /\ suppress_triggered_updates = s.suppress_triggered_updates
             /\ gc_started = s.gc_started
             /\ last_update_time = s.last_update_time
             /\ calls = s.calls
             /\ syscalls = s.syscalls
             /\ sent = s.sent

\* ----------------------------------------------------------------- actions
Due(fn) == \E c \in BagToSet(calls) : c.fn = fn /\ c.at <= now

\* The reactor takes a due call of fn off its queue.
Take(s, fn) ==
    LET c == CHOOSE c \in BagToSet(calls) :
                /\ c.fn = fn /\ c.at <= now
                /\ \A e \in BagToSet(calls) : e.fn = fn => c.at <= e.at
    IN [s EXCEPT !.calls = @ (-) SetToBag({c})]

\* reactor.run(): the startup event runs the callWhenRunning calls in the
\* order they were registered, before any datagram is read.
StartRunning ==
    /\ Due("startup")
    /\ \E jitter \in Jitters :
          Commit(send_request(
                    check_route_timeouts(
                        generate_periodic_update(Take(Cur, "startup"), jitter, now),
                        now, 0)))

\* The reactor hands datagram d to datagramReceived.  The random delay is
\* drawn only where handle_route_change reads it.
Receive(d) ==
    LET quiet == datagramReceived(Cur, d, 1, now)
    IN IF quiet.suppress_triggered_updates /\ ~suppress_triggered_updates
       THEN \E delay \in Delays : Commit(datagramReceived(Cur, d, delay, now))
       ELSE Commit(quiet)

\* A datagram arrives.
DatagramReceived ==
    /\ ~Due("startup")
    /\ now \in ArrivalTimes
    /\ \E d \in Datagrams : Receive(d)

\* The timeout scan fires.
CheckRouteTimeouts ==
    /\ Due("check_route_timeouts")
    /\ \E skew \in Skews :
          Commit(check_route_timeouts(Take(Cur, "check_route_timeouts"), now, skew))

\* The garbage collection sweep fires.
CollectGarbageRoutes ==
    /\ Due("collect_garbage_routes")
    /\ \E skew \in Skews :
          Commit(collect_garbage_routes(Take(Cur, "collect_garbage_routes"),
                                        now, skew))

\* A scheduled triggered update fires.
SendTriggeredUpdate ==
    /\ Due("send_triggered_update")
    /\ Commit(send_triggered_update(Take(Cur, "send_triggered_update"), now))

\* The periodic update fires.
GeneratePeriodicUpdate ==
    /\ Due("generate_periodic_update")
    /\ \E jitter \in Jitters :
          Commit(generate_periodic_update(
                    Take(Cur, "generate_periodic_update"), jitter, now))

\* A second passes; the reactor runs every due call before the clock moves.
Tick ==
    /\ now < MaxTime
    /\ \A c \in BagToSet(calls) : c.at > now
    /\ now' = now + 1
    /\ syscalls' = << >>
    /\ sent' = << >>
    /\ UNCHANGED << routes, route_change, suppress_triggered_updates,
                    gc_started, last_update_time, calls >>

Next ==
    \/ StartRunning
    \/ DatagramReceived
    \/ CheckRouteTimeouts
    \/ CollectGarbageRoutes
    \/ SendTriggeredUpdate
    \/ GeneratePeriodicUpdate
    \/ Tick

Spec == Init /\ [][Next]_vars

\* Two networks learned at different times.
AgingDatagramReceived ==
    /\ ~Due("startup")
    /\ now \in AgingArrivalTimes
    /\ \E d \in AgingDatagrams : Receive(d)

AgingNext ==
    \/ StartRunning
    \/ AgingDatagramReceived
    \/ CheckRouteTimeouts
    \/ CollectGarbageRoutes
    \/ SendTriggeredUpdate
    \/ GeneratePeriodicUpdate
    \/ Tick

AgingSpec == Init /\ [][AgingNext]_vars

\* The daemon started with a long --route list.
BulkInit ==
    /\ now = 0
    /\ \E cfg \in BulkConfigs :
          LET s == Startup(cfg)
          IN /\ routes = s.routes
             /\ route_change = s.route_change
             /\ suppress_triggered_updates = s.suppress_triggered_updates
             /\ gc_started = s.gc_started
             /\ last_update_time = s.last_update_time
             /\ calls = s.calls
             /\ syscalls = s.syscalls
             /\ sent = s.sent

BulkDatagramReceived ==
    /\ ~Due("startup")
    /\ now \in BulkArrivalTimes
    /\ \E d \in BulkDatagrams : Receive(d)

BulkNext ==
    \/ StartRunning
    \/ BulkDatagramReceived
    \/ CheckRouteTimeouts
    \/ CollectGarbageRoutes
    \/ SendTriggeredUpdate
    \/ GeneratePeriodicUpdate
    \/ Tick

BulkSpec == BulkInit /\ [][BulkNext]_vars

\* A RESPONSE arrives and the host adapter fails the first call made for it.
ReceiveAdapterFails ==
    /\ ~Due("startup")
    /\ now \in AgingArrivalTimes
    /\ \E d \in AgingDatagrams, delay \in Delays :
          /\ datagramReceived(Cur, d, delay, now).syscalls # << >>
          /\ Commit(datagramReceived_raises(Cur, d, delay, now))

\* The timeout scan fires and the host adapter fails its first call.
CheckRouteTimeoutsAdapterFails ==
    /\ Due("check_route_timeouts")
    /\ \E skew \in Skews :
          LET s == Take(Cur, "check_route_timeouts")
          IN /\ check_route_timeouts(s, now, skew).syscalls # << >>
             /\ Commit(check_route_timeouts_raises(s, now, skew))

\* The garbage collection sweep fires and the host adapter fails its first
\* call.
CollectGarbageRoutesAdapterFails ==
    /\ Due("collect_garbage_routes")
    /\ \E skew \in Skews :
          LET s == Take(Cur, "collect_garbage_routes")
          IN /\ collect_garbage_routes(s, now, skew).syscalls # << >>
             /\ Commit(collect_garbage_routes_raises(s, now, skew))

\* The daemon on a host whose adapter may fail.
FailNext ==
    \/ AgingNext
    \/ ReceiveAdapterFails
    \/ CheckRouteTimeoutsAdapterFails
    \/ CollectGarbageRoutesAdapterFails

FailSpec == Init /\ [][FailNext]_vars


\* ================================================================== claims
\* The route at index i of a table has the network and mask of rt.
SameNet(a, b) == a.network = b.network /\ a.mask = b.mask

\* C1: in every reachable state the Route Table holds at most one entry per
\* (network, mask) pair.
C1_OneEntryPerNetwork ==
    \A i, j \in 1..Len(routes) : SameNet(routes[i], routes[j]) => i = j

\* A learned route stands next to a route with the same address and another
\* mask, in the step that installed it.
C1_Witness ==
    \E i, j \in 1..Len(routes) :
        /\ routes[i].network = routes[j].network
        /\ routes[i].mask # routes[j].mask
        /\ ~routes[i].imported
        /\ \E k \in 1..Len(syscalls) : syscalls[k].op = "install_route"

\* C2: in every reachable state every route with garbage = true has metric 16.
C2_GarbageHasMetric16 ==
    \A i \in 1..Len(routes) : routes[i].garbage => routes[i].metric = MAX_METRIC

\* A route has just entered garbage collection at the end of the run, and
\* the triggered update that announces it has been sent.
C2_Witness ==
    /\ now = MaxTime
    /\ \E i \in 1..Len(routes) :
          /\ routes[i].garbage /\ routes[i].timeout = now
          /\ routes[i].metric = MAX_METRIC
    /\ \E c \in BagToSet(calls) : c.fn = "check_route_timeouts" /\ c.at > now
    /\ \E k \in 1..Len(syscalls) : syscalls[k].op = "modify_route"
    /\ ~route_change

\* C3: an imported route never has a timeout and is never in garbage
\* collection, and no step removes it from the table.
C3_ImportedState ==
    \A i \in 1..Len(routes) :
        routes[i].imported => routes[i].timeout = None /\ ~routes[i].garbage

C3_ImportedStays ==
    \A i \in 1..Len(routes) :
        routes[i].imported =>
            \E j \in 1..Len(routes') :
                SameNet(routes'[j], routes[i]) /\ routes'[j].imported

C3_ImportedNeverExpires == []C3_ImportedState /\ [][C3_ImportedStays]_vars

\* Imported routes stand in the table at the end of the run, after the scans
\* and a sweep have run, next to a learned route that is in garbage collection.
C3_Witness ==
    /\ now = MaxTime
    /\ \E i, j \in 1..Len(routes) :
          /\ routes[i].imported /\ routes[i].timeout = None
          /\ ~routes[j].imported /\ routes[j].garbage

\* C4 as claimed: no route of the table, the routes seeded at startup
\* included, has nexthop 0.0.0.0.
C4_NoZeroNexthop ==
    \A i \in 1..Len(routes) : routes[i].nexthop # ZeroAddr

\* C4 as amended: every learned route has a nexthop other than 0.0.0.0; the
\* routes seeded at startup carry nexthop 0.0.0.0.
C4_LearnedNexthopNotZero ==
    \A i \in 1..Len(routes) :
        routes[i].imported <=> routes[i].nexthop = ZeroAddr

\* A learned route and a seeded route stand in the table.
C4_Witness ==
    \E i, j \in 1..Len(routes) :
        /\ ~routes[i].imported /\ routes[i].nexthop # ZeroAddr
        /\ routes[j].imported /\ routes[j].nexthop = ZeroAddr

\* C5: a RESPONSE whose only entry is an authentication entry (afi 0xFFFF)
\* inserts no route and modifies none, whatever the rest of the entry
\* decodes to.
C5_AuthEntrySkipped ==
    [][\A d \in AuthResponses : Receive(d) => routes' = routes]_vars

\* C6: a datagram whose source lies only on the subnet of an interface that
\* was not activated is dropped: it changes no route, schedules nothing and
\* triggers no reply.
C6_InactiveIfaceDropped ==
    [][\A d \in InactiveIfaceDatagrams :
          Receive(d) => /\ routes' = routes
                        /\ route_change' = route_change
                        /\ calls' = calls
                        /\ sent' = << >>]_vars

\* The wire entry e names the network of route rt.
Names(e, rt) == rt.network = NetworkOf(e.address, e.mask) /\ rt.mask = e.mask

\* C7: when a RESPONSE entry for an unknown network carries a non-zero wire
\* nexthop N and a finite metric, the route installed has nexthop N.
C7_WireNexthopUsed ==
    [][\A d \in SingleResponses :
          ( /\ Receive(d)
            /\ d.rtes[1].nexthop # ZeroAddr
            /\ d.rtes[1].metric + 1 < MAX_METRIC
            /\ \A k \in 1..Len(routes) : ~Names(d.rtes[1], routes[k]) )
          => \E j \in 1..Len(routes') :
                /\ Names(d.rtes[1], routes'[j])
                /\ routes'[j].nexthop = d.rtes[1].nexthop]_vars

\* The RESPONSEs of the neighbours on an activated interface.
Responses == SingleResponses \cup PairResponses

\* The daemon's state in process_response just before and just after
\* try_add_route is called for entry i of RESPONSE d.
Before(d, i) ==
    ResponseLoop(Cur, SubSeq(Decode(d, now).rtes, 1, i - 1), 1, d.src, now)

After(d, i) ==
    ResponseLoop(Cur, SubSeq(Decode(d, now).rtes, 1, i), 1, d.src, now)

\* The metric process_response gives an entry of wire metric m.
Incremented(m) == IF m + 1 < MAX_METRIC THEN m + 1 ELSE MAX_METRIC

\* C8: for a RESPONSE entry whose network has no route in the table: with
\* wire metric 15 or 16 the table, the route-change flag and the kernel are
\* left unchanged; otherwise exactly one route is added, with metric = wire
\* metric + 1, changed, a fresh timeout and garbage = false, and the
\* route-change flag is set.
C8_UnknownNetwork ==
    \A d \in Responses : \A i \in 1..Len(d.rtes) :
        LET pre == Before(d, i)
            post == After(d, i)
            e == d.rtes[i]
            n == Len(pre.routes)
        IN (\A k \in 1..n : ~Names(e, pre.routes[k])) =>
             IF e.metric >= MAX_METRIC - 1
             THEN /\ post.routes = pre.routes
                  /\ post.route_change = pre.route_change
                  /\ post.syscalls = pre.syscalls
             ELSE /\ Len(post.routes) = n + 1
                  /\ SubSeq(post.routes, 1, n) = pre.routes
                  /\ Names(e, post.routes[n + 1])
                  /\ post.routes[n + 1].metric = e.metric + 1
                  /\ post.routes[n + 1].changed
                  /\ post.routes[n + 1].timeout = now
                  /\ ~post.routes[n + 1].garbage
                  /\ post.route_change
                  /\ Len(post.syscalls) = Len(pre.syscalls) + 1
                  /\ post.syscalls[Len(post.syscalls)].op = "install_route"

\* A RESPONSE has just added a route: it is installed, changed and fresh, and
\* the route-change flag waits for the scheduled triggered update.
C8_Witness ==
    /\ route_change
    /\ \E k \in 1..Len(syscalls) : syscalls[k].op = "install_route"
    /\ \E i \in 1..Len(routes) :
          /\ ~routes[i].imported /\ routes[i].changed /\ ~routes[i].garbage
          /\ routes[i].timeout = now /\ routes[i].metric = 2

\* C9: when the table holds a route R with metric < 16 and a RESPONSE from
\* R's nexthop carries R's network with wire metric 15 or 16, R enters garbage
\* collection (garbage, metric 16, changed, timeout = now), stays in the
\* table, the route-change flag is set and a sweep is pending.
C9_PoisonStartsGC ==
    \A d \in Responses : \A i \in 1..Len(d.rtes) :
        LET pre == Before(d, i)
            post == After(d, i)
            e == d.rtes[i]
        IN \A k \in 1..Len(pre.routes) :
             ( /\ Names(e, pre.routes[k])
               /\ pre.routes[k].metric < MAX_METRIC
               /\ pre.routes[k].nexthop = d.src
               /\ e.metric >= MAX_METRIC - 1 )
             => /\ post.routes =
                     [pre.routes EXCEPT ![k] =
                         [@ EXCEPT !.garbage = TRUE, !.metric = MAX_METRIC,
                                   !.changed = TRUE, !.timeout = now]]
                /\ post.route_change
                /\ post.gc_started
                /\ \E c \in BagToSet(post.calls) :
                      c.fn = "collect_garbage_routes" /\ c.at >= now

\* A RESPONSE has just put a route into garbage collection; the sweep is
\* pending and the triggered update is still to come.
C9_Witness ==
    /\ route_change /\ gc_started
    /\ \E c \in BagToSet(calls) :
          c.fn = "collect_garbage_routes" /\ c.at = now + garbage_timer
    /\ \E k \in 1..Len(syscalls) :
          syscalls[k].op = "modify_route" /\ syscalls[k].metric = MAX_METRIC
    /\ \E i \in 1..Len(routes) :
          /\ routes[i].garbage /\ routes[i].changed
          /\ routes[i].timeout = now /\ routes[i].metric = MAX_METRIC

\* C10: a RESPONSE entry for the network of a route R, from a nexthop other
\* than R's with incremented metric >= R.metric, changes nothing; an entry
\* raises the metric of a route only when it comes from the route's nexthop.
C10_WorseRouteIgnored ==
    \A d \in Responses : \A i \in 1..Len(d.rtes) :
        LET pre == Before(d, i)
            post == After(d, i)
            e == d.rtes[i]
        IN \A k \in 1..Len(pre.routes) :
             /\ ( /\ Names(e, pre.routes[k])
                  /\ pre.routes[k].nexthop # d.src
                  /\ Incremented(e.metric) >= pre.routes[k].metric )
                => post = pre
             /\ ( /\ k <= Len(post.routes)
                  /\ post.routes[k].metric > pre.routes[k].metric )
                => pre.routes[k].nexthop = d.src

\* Between callbacks the metric of a route is raised only by a received
\* datagram or by the timeout scan.
C10_RaisedOnlyByScan ==
    \A k \in 1..Len(routes) : \A j \in 1..Len(routes') :
        ( SameNet(routes[k], routes'[j])
          /\ routes'[j].metric > routes[k].metric )
        => DatagramReceived \/ CheckRouteTimeouts

C10_MetricRaise == []C10_WorseRouteIgnored /\ [][C10_RaisedOnlyByScan]_vars

\* The table holds a route of metric 1 learned from one neighbour just after
\* a datagram arrived that changed nothing, at an instant the other
\* neighbour advertises the same network with metric 1 and more.
C10_Witness ==
    /\ now = 1
    /\ syscalls = << >> /\ sent = << >>
    /\ \E i \in 1..Len(routes) :
          /\ routes[i].nexthop = 7 /\ routes[i].metric = 1
          /\ routes[i].timeout = 0 /\ ~routes[i].changed

\* The routes with the timeout field blanked.
SansTimeout(rs) == [i \in 1..Len(rs) |-> [rs[i] EXCEPT !.timeout = None]]

\* Some entry of RESPONSE d meets route rt on the equal-metric same-nexthop
\* branch of try_add_route.
Refreshes(d, rt) ==
    /\ rt.nexthop = d.src /\ ~rt.garbage
    /\ \E i \in 1..Len(d.rtes) :
          Names(d.rtes[i], rt) /\ Incremented(d.rtes[i].metric) = rt.metric

\* RESPONSE d applied at `now`, and applied again t seconds later (t in ts)
\* with no callback in between, leaves the table as the first application
\* left it but for the timeouts of the routes it refreshes.
SecondApplicationSame(d, ts) ==
    \A delay \in Delays :
        LET s1 == datagramReceived(Cur, d, delay, now)
            r1 == s1.routes
        IN \A t \in ts :
             LET r2 == datagramReceived(s1, d, delay, now + t).routes
             IN /\ SansTimeout(r2) = SansTimeout(r1)
                /\ \A k \in 1..Len(r1) :
                      r2[k].timeout # r1[k].timeout => Refreshes(d, r1[k])

\* C11 as stated: every RESPONSE, also one with several entries for one
\* network, applied a second time at once leaves the table as the first
\* application left it, timeouts apart.
C11_TwiceSameTable == \A d \in Responses : SecondApplicationSame(d, {0})

\* RESPONSEs with entries for two different networks, the second of them a
\* network no neighbour advertises otherwise.
DistinctPairs ==
    { Wire(6, RipPort, TYPE_RESPONSE,
           << Raw(AfiInet, [address |-> 1, mask |-> Netmask(2)], ZeroAddr, m1),
              Raw(AfiInet, [address |-> 8, mask |-> Netmask(2)], ZeroAddr, m2) >>) :
        m1 \in {0, 15}, m2 \in {0, 15} }

\* C11 amended: a RESPONSE whose entries name pairwise different networks,
\* applied a second time at once or a second later with no callback in
\* between, leaves the table as the first application left it in all fields
\* but timeout, and timeout differs only for routes met on the equal-metric
\* same-nexthop branch.
C11_TwiceSameTableDistinct ==
    \A d \in SingleResponses \cup DistinctPairs :
        SecondApplicationSame(d, {0, 1})

\* A RESPONSE has just replaced a route by a better one from its sender; a
\* second copy of it finds the route on the equal-metric same-nexthop branch.
C11_Witness ==
    /\ now = 1
    /\ \E k \in 1..Len(syscalls) :
          syscalls[k].op = "modify_route" /\ syscalls[k].nexthop = 6
    /\ \E i \in 1..Len(routes) :
          /\ routes[i].nexthop = 6 /\ routes[i].metric = 1
          /\ routes[i].changed /\ routes[i].timeout = now
    /\ \E d \in SingleResponses : \E i \in 1..Len(routes) :
          Refreshes(d, routes[i])

\* C12: once a route is in garbage collection, a further trigger on it is a
\* no-op: an entry for its network whose incremented metric is 16, from its
\* nexthop or from any other neighbour, changes nothing at all (the
\* timestamp, the other fields, the route-change flag and the pending calls
\* stay as they are), and so does the timeout scan's pass over it.
C12_SecondGCNoOp ==
    /\ \A d \in Responses : \A i \in 1..Len(d.rtes) :
          LET pre == Before(d, i)
              post == After(d, i)
          IN \A k \in 1..Len(pre.routes) :
                ( /\ pre.routes[k].garbage
                  /\ Names(d.rtes[i], pre.routes[k])
                  /\ Incremented(d.rtes[i].metric) = MAX_METRIC )
                => post = pre
    /\ \A skew \in Skews :
          LET out == TimeoutLoop(Cur, 1, now, skew)
          IN /\ \A k \in 1..Len(routes) :
                   routes[k].garbage => out.routes[k] = routes[k]
             /\ (\A k \in 1..Len(routes) :
                    routes[k].garbage
                    \/ ~Expired(routes[k], timeout_timer, now, skew))
                => out = Cur

\* A route went into garbage collection a second ago; unreachable
\* advertisements for it arrive now, its sweep is pending once, and nothing
\* has been changed in this instant.
C12_Witness ==
    /\ now = 1 /\ gc_started
    /\ syscalls = << >> /\ sent = << >>
    /\ \E i \in 1..Len(routes) :
          /\ routes[i].garbage /\ routes[i].timeout = 0
          /\ routes[i].nexthop = 6
    /\ \A c \in BagToSet(calls) :
          c.fn = "collect_garbage_routes" => calls[c] = 1 /\ c.at = garbage_timer

\* C13: no learned route that is not in garbage collection is left with a
\* timeout older than 6T plus the one second of scan slack, however many
\* more recently refreshed routes the table holds.
C13_NoStaleRoute ==
    \A i \in 1..Len(routes) :
        (~routes[i].imported /\ ~routes[i].garbage)
        => routes[i].timeout >= now - timeout_timer - 1

\* Route rt has left the table rs.
Gone(rt, rs) == \A j \in 1..Len(rs) : ~SameNet(rt, rs[j])

\* A sweep removes and uninstalls every garbage route whose timestamp is
\* more than 4T old; and while a garbage route is in the table a sweep is
\* pending.
C14_SweepRemoves ==
    /\ \A skew \in Skews :
          LET out == collect_garbage_routes(Cur, now, skew)
          IN \A i \in 1..Len(routes) :
                (routes[i].garbage /\ routes[i].timeout < now - garbage_timer)
                => /\ Gone(routes[i], out.routes)
                   /\ \E k \in 1..Len(out.syscalls) :
                         /\ out.syscalls[k].op = "uninstall_route"
                         /\ out.syscalls[k].network = routes[i].network
                         /\ out.syscalls[k].mask = routes[i].mask
    /\ (\E i \in 1..Len(routes) : routes[i].garbage)
       => /\ gc_started
          /\ \E c \in BagToSet(calls) : c.fn = "collect_garbage_routes"

\* A garbage route leaves the table only in a sweep, not before 4T have
\* passed since it entered garbage collection, and it is uninstalled then.
C14_StaysUntilSweep ==
    \A i \in 1..Len(routes) :
        (routes[i].garbage /\ Gone(routes[i], routes'))
        => /\ CollectGarbageRoutes
           /\ routes[i].timeout <= now - garbage_timer
           /\ \E k \in 1..Len(syscalls') :
                 /\ syscalls'[k].op = "uninstall_route"
                 /\ syscalls'[k].network = routes[i].network

\* C14: a route that entered garbage collection at g and is not revived
\* stays in the table before g + 4T; a sweep stays pending while it is
\* there, and the first sweep that runs after g + 4T removes and uninstalls
\* it.
C14_GarbageLifetime == []C14_SweepRemoves /\ [][C14_StaysUntilSweep]_vars

\* A RESPONSE from one neighbour that changes a route, and one from the
\* other neighbour that changes a route right after it.
FirstChanges ==
    { Wire(6, RipPort, TYPE_RESPONSE,
           << Raw(AfiInet, [address |-> 0, mask |-> Netmask(2)], ZeroAddr, m) >>) :
        m \in {1, 15} }

SecondChanges ==
    { Wire(7, RipPort, TYPE_RESPONSE,
           << Raw(AfiInet, [address |-> a, mask |-> Netmask(2)], ZeroAddr, 0) >>) :
        a \in {0, 8} }

\* The number of triggered emissions pending in the reactor.
PendingTriggered(cs) ==
    LET P == {c \in BagToSet(cs) : c.fn = "send_triggered_update"}
        RECURSIVE Sum(_)
        Sum(S) == IF S = {} THEN 0
                  ELSE LET c == CHOOSE x \in S : TRUE
                       IN cs[c] + Sum(S \ {c})
    IN Sum(P)

\* The datagrams out carry an entry for every network the host adapter calls
\* sys were made for.
Advertises(out, sys) ==
    \A k \in 1..Len(sys) :
        \E j \in 1..Len(out) : \E e \in 1..Len(out[j].rtes) :
            /\ out[j].rtes[e].address = sys[k].network
            /\ out[j].rtes[e].mask = sys[k].mask

\* s2 is the state after both RESPONSEs: nothing was emitted on arrival, the
\* two changes wait for one emission scheduled at most five seconds after
\* the first change, and that emission carries every route either changed.
OneUpdateForBoth(s2, pending) ==
    /\ s2.sent = << >>
    /\ s2.route_change /\ s2.suppress_triggered_updates
    /\ PendingTriggered(s2.calls) >= 1
    /\ PendingTriggered(s2.calls) <= pending + 1
    /\ \E c \in BagToSet(s2.calls) :
          c.fn = "send_triggered_update" /\ c.at <= now + 5
    /\ Advertises(send_triggered_update(s2, now).sent, s2.syscalls)

WholeRequests ==
    { Wire(6, RipPort, TYPE_REQUEST, WholeRequest),
      Wire(14, 1024, TYPE_REQUEST, WholeRequest),
      Wire(10, RipPort, TYPE_REQUEST, WholeRequest) }

\* The entries of the datagrams out, in order.
RECURSIVE Entries(_)
Entries(out) ==
    IF Len(out) = 0 THEN << >> ELSE out[1].rtes \o Entries(Tail(out))

\* Entry e advertises route rt.
Carries(e, rt) ==
    e.address = rt.network /\ e.mask = rt.mask /\ e.metric = rt.metric

\* C16: a whole-table REQUEST from (S, P) is answered on the receiving
\* interface I only, to (S, P), by RESPONSE datagrams that carry, in table
\* order and whatever their changed flags, exactly the routes whose nexthop
\* is not on I's subnet; the table is left as it was.
C16_WholeTableResponse ==
    \A d \in WholeRequests :
        LET out == datagramReceived(Cur, d, 1, now)
            I == logical_ifaces[LocalIface(d.src)]
            off(rt) == ~InIface(rt.nexthop, I)
            eligible == SelectSeq(routes, off)
            es == Entries(out.sent)
        IN /\ out.routes = routes
           /\ \A j \in 1..Len(out.sent) :
                 /\ out.sent[j].iface = I.ip
                 /\ out.sent[j].dst = d.src
                 /\ out.sent[j].port = d.port
                 /\ out.sent[j].cmd = TYPE_RESPONSE
           /\ Len(es) = Len(eligible)
           /\ \A k \in 1..Len(es) : Carries(es[k], eligible[k])

\* A whole-table REQUEST from a neighbour on interface A has just been
\* answered: the reply carries the imported routes and leaves out the route
\* learned on A, whose changed flag is still set.
C16_Witness ==
    /\ Len(sent) = 1
    /\ sent[1].dst = 6 /\ sent[1].iface = 5 /\ sent[1].cmd = TYPE_RESPONSE
    /\ syscalls = << >>
    /\ \E i \in 1..Len(routes) : routes[i].nexthop = 7 /\ routes[i].changed
    /\ \E i \in 1..Len(routes) : routes[i].imported
    /\ Len(sent[1].rtes) = Len(routes) - 1

\* Specific REQUESTs: one entry written with a host bit set and a wire
\* nexthop of 0.0.0.0, and two entries on network boundaries with a nexthop.
SpecificRequests ==
    { Wire(6, 1024, TYPE_REQUEST,
           << Raw(AfiInet, [address |-> 1, mask |-> Netmask(2)], ZeroAddr, 3) >>),
      Wire(14, RipPort, TYPE_REQUEST,
           << Raw(AfiInet, [address |-> 0, mask |-> Netmask(2)], 7, 3),
              Raw(AfiInet, [address |-> 8, mask |-> Netmask(2)], 7, 0) >>) }

\* The metric the table holds for the destination of wire entry e, 16 when
\* it holds none.
LocalMetric(e) ==
    LET k == get_route(routes, NetworkOf(e.address, e.mask), e.mask)
    IN IF k = 0 THEN MAX_METRIC ELSE routes[k].metric

\* C17: a specific REQUEST from (S, P) is answered by one RESPONSE to (S, P)
\* with the same entries in the same order, each equal to the received entry
\* in afi, tag, address, mask and nexthop, the metric replaced by the local
\* route's metric or 16; the table is left as it was.
C17_EchoVerbatim ==
    \A d \in SpecificRequests :
        LET out == datagramReceived(Cur, d, 1, now)
            reply == out.sent[1]
        IN /\ out.routes = routes
           /\ Len(out.sent) = 1
           /\ reply.dst = d.src /\ reply.port = d.port
           /\ reply.cmd = TYPE_RESPONSE
           /\ Len(reply.rtes) = Len(d.rtes)
           /\ \A i \in 1..Len(d.rtes) :
                 /\ reply.rtes[i].afi = d.rtes[i].afi
                 /\ reply.rtes[i].tag = d.rtes[i].tag
                 /\ reply.rtes[i].address = d.rtes[i].address
                 /\ reply.rtes[i].mask = d.rtes[i].mask
                 /\ reply.rtes[i].nexthop = d.rtes[i].nexthop
                 /\ reply.rtes[i].metric = LocalMetric(d.rtes[i])

\* C18: on every interface, for the periodic and the triggered form, an
\* update with k eligible routes goes out as ceil(k/25) datagrams of 1 to 25
\* entries, all but the last of 25, none with a header only, and the entries
\* are the eligible routes, each once, in table order.
C18_Chunks ==
    \A n \in 1..Len(logical_ifaces), triggered \in BOOLEAN :
        LET I == logical_ifaces[n]
            elig(rt) == ~InIface(rt.nexthop, I) /\ (triggered => rt.changed)
            eligible == SelectSeq(routes, elig)
            k == Len(eligible)
            out == UpdateLoop(routes, 1, I, triggered, McastGroup, RipPort,
                              << >>, << >>)
            es == Entries(out)
        IN /\ Len(out) = (k + 24) \div 25
           /\ \A j \in 1..Len(out) :
                 /\ Len(out[j].rtes) \in 1..25
                 /\ j < Len(out) => Len(out[j].rtes) = 25
           /\ Len(es) = k
           /\ \A i \in 1..k : Carries(es[i], eligible[i])

\* An update has just gone out on interface A as a datagram of 25 entries
\* followed by a shorter one, while the table also holds a route learned on
\* A, which split horizon leaves out.
C18_Witness ==
    /\ \E j \in 1..(Len(sent) - 1) :
          /\ sent[j].iface = 5 /\ Len(sent[j].rtes) = 25
          /\ sent[j + 1].iface = 5 /\ Len(sent[j + 1].rtes) \in 1..24
    /\ \E i \in 1..Len(routes) : routes[i].nexthop = 6

\* The periodic update, the triggered update and the whole-table responses,
\* run in the current state.
Emissions ==
    { generate_update(Cur, triggered, << >>, McastGroup, RipPort, now) :
        triggered \in BOOLEAN }
    \cup { datagramReceived(Cur, d, 1, now) : d \in WholeRequests }

\* The interface with address ip.
IfaceOf(ip) ==
    logical_ifaces[CHOOSE n \in 1..Len(logical_ifaces) : logical_ifaces[n].ip = ip]

\* The stored nexthops are what they were.
NexthopsKept(s2) ==
    /\ Len(s2.routes) = Len(routes)
    /\ \A i \in 1..Len(routes) : s2.routes[i].nexthop = routes[i].nexthop

\* C19 as stated: an update on interface I carries every route whose nexthop
\* is on I's subnet and is not I's address, with that nexthop in the entry;
\* every other entry carries 0.0.0.0; the stored nexthops are unchanged.
C19_TrueNexthopEmitted ==
    \A s2 \in Emissions :
        /\ NexthopsKept(s2)
        /\ \A j \in 1..Len(s2.sent) :
              LET I == IfaceOf(s2.sent[j].iface)
              IN \A k \in 1..Len(s2.sent[j].rtes) :
                    LET e == s2.sent[j].rtes[k]
                        rt == routes[get_route(routes, e.address, e.mask)]
                    IN e.nexthop =
                          IF InIface(rt.nexthop, I) /\ rt.nexthop # I.ip
                          THEN rt.nexthop ELSE ZeroAddr
        /\ \A n \in 1..Len(logical_ifaces), i \in 1..Len(routes) :
              LET I == logical_ifaces[n]
                  out == UpdateLoop(routes, 1, I, FALSE, McastGroup, RipPort,
                                    << >>, << >>)
                  es == Entries(out)
              IN InIface(routes[i].nexthop, I) /\ routes[i].nexthop # I.ip
                    => \E k \in 1..Len(es) :
                          /\ es[k].address = routes[i].network
                          /\ es[k].mask = routes[i].mask
                          /\ es[k].nexthop = routes[i].nexthop

\* C19, amended: every entry of an update carries nexthop 0.0.0.0, because
\* a route whose nexthop is on the subnet of the emitting interface is never
\* emitted on it; the stored nexthops are unchanged.
C19_ZeroNexthopEmitted ==
    \A s2 \in Emissions :
        /\ NexthopsKept(s2)
        /\ \A j \in 1..Len(s2.sent) :
              LET I == IfaceOf(s2.sent[j].iface)
              IN \A k \in 1..Len(s2.sent[j].rtes) :
                    LET e == s2.sent[j].rtes[k]
                        rt == routes[get_route(routes, e.address, e.mask)]
                    IN /\ e.nexthop = ZeroAddr
                       /\ ~InIface(rt.nexthop, I)

\* A periodic update has just gone out while the table holds a route learned
\* from a neighbour on interface A: the datagram sent on C carries it with
\* nexthop 0.0.0.0, the one sent on A does not carry it.
C19_Witness ==
    \E i \in 1..Len(routes) :
        /\ routes[i].nexthop = 6
        /\ \E j \in 1..Len(sent) :
              /\ sent[j].iface = 13 /\ sent[j].dst = McastGroup
              /\ \E k \in 1..Len(sent[j].rtes) :
                    /\ sent[j].rtes[k].address = routes[i].network
                    /\ sent[j].rtes[k].mask = routes[i].mask
                    /\ sent[j].rtes[k].nexthop = ZeroAddr
        /\ \A j \in 1..Len(sent) :
              sent[j].iface = 5 =>
                 \A k \in 1..Len(sent[j].rtes) :
                    ~(sent[j].rtes[k].address = routes[i].network
                      /\ sent[j].rtes[k].mask = routes[i].mask)

\* The in-memory protocol state of a and of b is the same.
SameProtocolState(a, b) ==
    /\ a.routes = b.routes
    /\ a.route_change = b.route_change
    /\ a.suppress_triggered_updates = b.suppress_triggered_updates
    /\ a.gc_started = b.gc_started
    /\ a.calls = b.calls

\* C20: when a call of the host adapter fails, the handler leaves the
\* in-memory protocol state as it leaves it when the call succeeds: for a
\* RESPONSE that installs or modifies a route, for a timeout scan that
\* starts garbage collection, for a sweep that deletes a route.
C20_AdvancesOnFailure ==
    /\ ~Due("startup") =>
          \A d \in AgingDatagrams \cup DistinctPairs :
              SameProtocolState(datagramReceived_raises(Cur, d, 1, now),
                                datagramReceived(Cur, d, 1, now))
    /\ Due("check_route_timeouts") =>
          \A skew \in Skews :
              LET s == Take(Cur, "check_route_timeouts")
              IN SameProtocolState(check_route_timeouts_raises(s, now, skew),
                                   check_route_timeouts(s, now, skew))
    /\ Due("collect_garbage_routes") =>
          \A skew \in Skews :
              LET s == Take(Cur, "collect_garbage_routes")
              IN SameProtocolState(collect_garbage_routes_raises(s, now, skew),
                                   collect_garbage_routes(s, now, skew))

\* Datagrams the ingress filter has to drop: from an address of this host,
\* too short, not a whole number of entries, with a non-zero reserved field,
\* with a metric out of range after a valid entry or in a REQUEST, a RESPONSE
\* from another port than the RIP port, and unknown commands.
IngressDropped ==
    { Wire(src, RipPort, cmd, << GoodRte >>) :
        src \in {5, 9, 13}, cmd \in {TYPE_REQUEST, TYPE_RESPONSE} }
    \cup
    { [Wire(6, RipPort, cmd, << >>) EXCEPT !.datalen = n] :
        cmd \in {TYPE_REQUEST, TYPE_RESPONSE}, n \in {0, 3} }
    \cup
    { [Wire(6, RipPort, cmd, << GoodRte >>) EXCEPT !.datalen = n] :
        cmd \in {TYPE_REQUEST, TYPE_RESPONSE}, n \in {5, 23, 25} }
    \cup
    { [Wire(6, RipPort, cmd, rtes) EXCEPT !.zero = 1] :
        cmd \in {TYPE_REQUEST, TYPE_RESPONSE}, rtes \in {<< >>, << GoodRte >>} }
    \cup
    { Wire(6, RipPort, cmd, << GoodRte, [GoodRte EXCEPT !.metric = 17] >>) :
        cmd \in {TYPE_REQUEST, TYPE_RESPONSE} }
    \cup
    { Wire(6, port, TYPE_RESPONSE, << GoodRte >>) : port \in {519, 521, 1024} }
    \cup
    { Wire(src, RipPort, cmd, << GoodRte >>) : src \in {6, 14}, cmd \in {0, 3} }

\* C21: a datagram the ingress filter drops leaves the table, the
\* route-change flag, the suppression bit, the garbage collection flag, the
\* time of the last update and the pending calls as they are, makes no call
\* on the host adapter and sends nothing.
C21_DroppedChangesNothing ==
    \A d \in IngressDropped, delay \in Delays :
        datagramReceived(Cur, d, delay, now) = Cur

\* The daemon runs with a non-empty table and its timers pending, and the
\* entry the dropped datagrams carry would change the table if it came in a
\* well-formed RESPONSE from the RIP port of a neighbour.
C21_Witness ==
    /\ ~Due("startup")
    /\ Len(routes) > 0
    /\ calls # EmptyBag
    /\ LET out == datagramReceived(Cur, Wire(6, RipPort, TYPE_RESPONSE, << GoodRte >>),
                                   1, now)
       IN out.routes # routes /\ out.route_change /\ out.syscalls # << >>

\* C22: while a triggered emission is scheduled the suppression bit is set,
\* whatever callback has run since it was scheduled (a timeout scan
\* included), and no second emission is scheduled beside it.
C22_OnePendingEmission ==
    /\ PendingTriggered(calls) <= 1
    /\ PendingTriggered(calls) = 1 => suppress_triggered_updates

\* Nothing waits for a triggered update in state s.
Cleared(s) ==
    /\ ~s.route_change
    /\ ~s.suppress_triggered_updates
    /\ \A i \in 1..Len(s.routes) : ~s.routes[i].changed

\* C23: at the end of every callback a set route-change flag has a triggered
\* emission scheduled for it, and a triggered emission leaves no route
\* changed, the route-change flag clear and the suppression bit clear.
C23_ChangeIsEmitted ==
    /\ route_change => PendingTriggered(calls) >= 1
    /\ Cleared(send_triggered_update(Cur, now))
    /\ Due("check_route_timeouts") =>
          \A skew \in Skews :
              LET s == Take(Cur, "check_route_timeouts")
                  s2 == check_route_timeouts(s, now, skew)
              IN TimeoutLoop(s, 1, now, skew).route_change => Cleared(s2)

\* A triggered emission has just run: it carried the one route that had
\* changed out of a table of several, and nothing is left waiting.
C23_Witness ==
    /\ Cleared(Cur)
    /\ PendingTriggered(calls) = 0
    /\ last_update_time = now
    /\ Len(routes) >= 2
    /\ \A i \in 1..Len(routes) : routes[i].nexthop \in {ZeroAddr, 6, 7}
    /\ \E j \in 1..Len(sent) :
          /\ sent[j].iface = 13 /\ sent[j].dst = McastGroup
          /\ sent[j].cmd = TYPE_RESPONSE /\ Len(sent[j].rtes) = 1

\* C24: at the end of every callback, when no sweep is pending (the
\* gc-started flag is false) no route of the table is in garbage collection.
C24_NoGarbageWithoutSweep ==
    ~gc_started => \A i \in 1..Len(routes) : ~routes[i].garbage

\* The number of garbage collection sweeps pending in the reactor.
PendingSweeps(cs) ==
    LET P == {c \in BagToSet(cs) : c.fn = "collect_garbage_routes"}
        RECURSIVE Sum(_)
        Sum(S) == IF S = {} THEN 0
                  ELSE LET c == CHOOSE x \in S : TRUE
                       IN cs[c] + Sum(S \ {c})
    IN Sum(P)

\* C25: at most one sweep is pending, and one is pending exactly when the
\* gc-started flag is set, however routes enter garbage collection between
\* the firings of the sweep.
C25_OneSweepPending ==
    /\ PendingSweeps(calls) <= 1
    /\ gc_started <=> PendingSweeps(calls) = 1

\* The timeout scan has just put a second route into garbage collection
\* while the sweep scheduled for the first one is pending.
C25_Witness ==
    /\ gc_started /\ PendingSweeps(calls) = 1
    /\ \E k \in 1..Len(syscalls) : syscalls[k].op = "modify_route"
    /\ \E i, j \in 1..Len(routes) :
          /\ routes[i].garbage /\ routes[j].garbage
          /\ routes[i].timeout < now /\ routes[j].timeout = now
    /\ \E c \in BagToSet(calls) :
          c.fn = "collect_garbage_routes" /\ c.at < now + garbage_timer

\* C26: the periodic update is always rescheduled with a valid delay: once
\* the daemon runs, a periodic update is pending at the end of every
\* callback, and every delay get_update_interval gives is strictly positive
\* and within JITTER_VALUE of the update timer.
C26_PeriodicRescheduled ==
    /\ ~Due("startup") =>
          \E c \in BagToSet(calls) : c.fn = "generate_periodic_update"
    /\ \A jitter \in Jitters :
          /\ get_update_interval(jitter) > 0
          /\ get_update_interval(jitter) >= update_timer - JITTER_VALUE
          /\ get_update_interval(jitter) <= update_timer + JITTER_VALUE

\* C27: in every reachable state every metric of the table lies in 1..16,
\* and a route with metric 16 is in garbage collection.
C27_UnreachableIsGarbage ==
    \A i \in 1..Len(routes) :
        /\ routes[i].metric \in 1..MAX_METRIC
        /\ routes[i].metric = MAX_METRIC => routes[i].garbage

\* A route that was in garbage collection has just been advertised again by
\* a neighbour: it is back with a metric below 16 while the sweep scheduled
\* for it is still pending.
C27_Witness ==
    /\ gc_started
    /\ \E i \in 1..Len(routes) :
          /\ ~routes[i].imported /\ ~routes[i].garbage
          /\ routes[i].metric < MAX_METRIC
          /\ routes[i].timeout = now /\ routes[i].changed
          /\ \E k \in 1..Len(syscalls) :
                /\ syscalls[k].op = "modify_route"
                /\ syscalls[k].network = routes[i].network
                /\ syscalls[k].metric = routes[i].metric
    /\ \A i \in 1..Len(routes) : ~routes[i].garbage

=============================================================================
